---- MODULE Spec2Model ----
(***************************************************************************)
(* Model of scraper/scraper.py: one run of main() over the configured      *)
(* sites, with polite_get unfolded attempt by attempt, robots_for with the *)
(* behaviour of urllib.robotparser.RobotFileParser.read / can_fetch, the   *)
(* link extraction and normalisation, extract_article and the final write. *)
(***************************************************************************)
EXTENDS Integers, Sequences, FiniteSets, TLC

VARIABLES
    sites,          \* cfg.get("sites", [])           (main, line 124)
    max_per_site,   \* args.max_per_site              (main, line 117)
    out_dir_exists, \* does the parent directory of args.out exist
    table,          \* the file at args.out: [exists, rows]
    writes,         \* number of df.to_csv calls that completed
    pc,             \* position of main()
    si,             \* index of `site` in the loop of line 140
    rp,             \* robots policy of the current site (line 142)
    rb,             \* what the robots.txt fetch of the current site met
    sj,             \* index of `su` in the loop of line 145
    all_links,      \* line 144
    article_urls,   \* line 159-161
    ai,             \* index of `url` in the loop of line 168
    existing,       \* line 130/133/174: the seen-URL set
    rows,           \* line 130/134/174: the row collection
    clock,          \* datetime.now(timezone.utc), as a logical time
    pg,             \* the polite_get call in progress or just ended
    prior,          \* the file at args.out as the run found it
    warned,         \* the "[WARN] listado" lines printed: <<site, start url index>>
    attempted,      \* the URLs the current site handed to extract_article
    interrupted,    \* has a KeyboardInterrupt been delivered to the process
    parsed          \* lines 148-155: what the listing page just parsed gave

vars == <<sites, max_per_site, out_dir_exists, table, writes, pc, si, rp, rb, sj,
          all_links, article_urls, ai, existing, rows, clock, pg, prior, warned,
          attempted, interrupted, parsed>>

-----------------------------------------------------------------------------
(* Bounds of the model *)

\* --max-per-site is drawn from -1 .. MaxPerSite
MaxPerSite == 2

(* Program constants *)

\* polite_get(..., tries=4, ...)
tries == 4

-----------------------------------------------------------------------------
(* URLs: scheme://host/path#frag, the scheme being http throughout *)

U(h, p, f) == [host |-> h, path |-> p, frag |-> f]

\* the empty string, where a URL is expected
EmptyUrl == U("", "", "")

\* float("nan") in the url column of a data frame
NaNUrl == U("NaN", "NaN", "NaN")

\* urlparse(u).netloc
netloc(u) == u.host

(* An href attribute value: "abs" http://host/path#frag, "rel" /path#frag,    *)
(* "proto" //host/path#frag (protocol-relative), "none" attribute absent/"". *)
Href(k, h, p, f) == [kind |-> k, host |-> h, path |-> p, frag |-> f]

NoHref == Href("none", "", "", "")

\* href.startswith("/")
startswith_slash(href) == href.kind \in {"rel", "proto"}

\* urlparse(href).netloc
href_netloc(href) == IF href.kind \in {"abs", "proto"} THEN href.host ELSE ""

\* urljoin(base, href)
urljoin(base, href) ==
    CASE href.kind = "abs"   -> U(href.host, href.path, href.frag)
      [] href.kind = "proto" -> U(href.host, href.path, href.frag)
      [] href.kind = "rel"   -> U(base.host, href.path, href.frag)
      [] OTHER               -> base

-----------------------------------------------------------------------------
(* Sequences *)

Range(s) == {s[k] : k \in DOMAIN s}

\* the orders in which a set can be listed: list(links), random.shuffle
Orderings(S) ==
    {s \in [1..Cardinality(S) -> S] : \A a, b \in DOMAIN s : a # b => s[a] # s[b]}

\* Slice keeping one element more
Slice_one_more(s, m) == SubSeq(s, 1, IF m + 1 < Len(s) THEN m + 1 ELSE Len(s))

\* Python's s[:m] for any integer m
Slice(s, m) ==
    IF m >= 0 THEN SubSeq(s, 1, IF m < Len(s) THEN m ELSE Len(s))
    ELSE SubSeq(s, 1, IF Len(s) + m > 0 THEN Len(s) + m ELSE 0)

-----------------------------------------------------------------------------
(* robots.txt: robots_for and RobotFileParser *)

\* `None`, where a RobotFileParser is expected
NoPolicy ==
    [present |-> FALSE, disallow_all |-> FALSE, allow_all |-> FALSE,
     last_checked |-> FALSE, disallow |-> {}]

\* RobotFileParser() after set_url: nothing read yet
FreshPolicy ==
    [present |-> TRUE, disallow_all |-> FALSE, allow_all |-> FALSE,
     last_checked |-> FALSE, disallow |-> {}]

\* robots.txt bodies that decode and parse: the paths their "*" entry disallows
\* (an empty or garbled file yields no rule)
RobotsFiles == {{}, {"a", "l2"}}

(* What rp.read() meets: urlopen raising URLError, urlopen raising an        *)
(* HTTPError with a status, a body that is not UTF-8, or a body that parses. *)
RobotsFetch(k, s, d) == [kind |-> k, status |-> s, disallow |-> d]

RobotsFailures ==
    {RobotsFetch("neterr", 0, {}), RobotsFetch("undecodable", 200, {})}
    \cup {RobotsFetch("http", s, {}) : s \in {401, 403, 404, 503}}

\* a KeyboardInterrupt delivered while rp.read() waits for the answer
RobotsInterrupt == RobotsFetch("interrupt", 0, {})

RobotsOutcomes ==
    RobotsFailures \cup {RobotsFetch("parsed", 200, d) : d \in RobotsFiles}
    \cup {RobotsInterrupt}

NoRobotsFetch == RobotsFetch("none", 0, {})

\* RobotFileParser.read(): does it raise?
read_raises(o) == o.kind \in {"neterr", "undecodable", "interrupt"}

\* RobotFileParser.read(): the parser's state when it returns
read(o) ==
    CASE o.kind = "http" /\ o.status \in {401, 403} ->
            [FreshPolicy EXCEPT !.disallow_all = TRUE]
      [] o.kind = "http" /\ o.status >= 400 /\ o.status < 500 ->
            [FreshPolicy EXCEPT !.allow_all = TRUE]
      [] o.kind = "parsed" ->
            [FreshPolicy EXCEPT !.last_checked = TRUE, !.disallow = o.disallow]
      [] OTHER -> FreshPolicy

\* robots_for(base), given what the fetch of base's robots.txt meets; the bare
\* `except:` of line 51 catches whatever read() raises, KeyboardInterrupt too
robots_for(o) == IF read_raises(o) THEN NoPolicy ELSE read(o)

\* rp.can_fetch("*", url): only the path of url is matched against the rules
can_fetch(p, url) ==
    IF p.disallow_all THEN FALSE
    ELSE IF p.allow_all THEN TRUE
    ELSE IF ~p.last_checked THEN FALSE
    ELSE url.path \notin p.disallow

-----------------------------------------------------------------------------
(* polite_get *)

Err(t, s) == [type |-> t, status |-> s]

NoErr == Err("None", 0)

\* what one s.get(...) meets: a response with a status, or an exception
Got(k, s) == [kind |-> k, status |-> s]

NoGot == Got("none", 0)

Statuses == {200, 404, 429, 503}

AttemptOutcomes == {Got("resp", s) : s \in Statuses} \cup {Got("exc", 0)}

\* the events of one call, in order
Ev(e, b) == [ev |-> e, base |-> b]

IdleCall ==
    [st |-> "idle", url |-> EmptyUrl, i |-> 0, last_err |-> NoErr,
     err |-> NoErr, last |-> NoGot, trace |-> <<>>]

\* line 30: is the call refused before any request?
robots_blocked(p, url) == p.present /\ ~can_fetch(p, url)

\* pg_enter without the check of line 30
pg_enter_unchecked(p, url) == [IdleCall EXCEPT !.st = "try", !.url = url]

\* lines 30-32: the call up to the loop
pg_enter(p, url) ==
    IF robots_blocked(p, url)
    THEN [IdleCall EXCEPT !.st = "raised", !.url = url,
                          !.err = Err("PermissionError", 0)]
    ELSE [IdleCall EXCEPT !.st = "try", !.url = url]

\* lines 36-39: the exception the attempt raises, NoErr if none
attempt_error(o) ==
    IF o.kind = "exc" THEN Err("ConnectionError", 0)
    ELSE IF o.status = 429 \/ (500 <= o.status /\ o.status < 600)
         THEN Err("HTTPError", o.status)
    ELSE IF 400 <= o.status /\ o.status < 600
         THEN Err("HTTPError", o.status)
    ELSE NoErr

\* lines 40-41: the attempt succeeded; the local last_err ends with the call
pg_success(c, o) ==
    [c EXCEPT !.st = "returned", !.last = o, !.last_err = NoErr,
              !.trace = @ \o <<Ev("get", 0), Ev("courtesy", 0)>>]

\* keep_error holding on to the error of the first failed attempt
keep_error_first(c, e) == IF c.last_err = NoErr THEN e ELSE c.last_err

\* line 43: the error kept for line 45
keep_error(c, e) == e

\* pg_failure with the courtesy sleep taken after every attempt
pg_failure_courtesy(c, o, e) ==
    LET kept == keep_error(c, e) IN
    [c EXCEPT !.last = o, !.last_err = kept, !.i = @ + 1,
              !.trace = @ \o <<Ev("get", 0), Ev("courtesy", 0), Ev("backoff", 2^(c.i))>>,
              !.st = IF c.i + 1 < tries THEN "try" ELSE "raised",
              !.err = IF c.i + 1 < tries THEN NoErr ELSE kept]

\* lines 42-45: the attempt failed; the loop goes on or ends in `raise last_err`
pg_failure(c, o, e) ==
    LET kept == keep_error(c, e) IN
    [c EXCEPT !.last = o, !.last_err = kept, !.i = @ + 1,
              !.trace = @ \o <<Ev("get", 0), Ev("backoff", 2^(c.i))>>,
              !.st = IF c.i + 1 < tries THEN "try" ELSE "raised",
              !.err = IF c.i + 1 < tries THEN NoErr ELSE kept]

\* lines 33-45: one iteration of the loop
pg_attempt(c, o) ==
    IF attempt_error(o) = NoErr THEN pg_success(c, o)
    ELSE pg_failure(c, o, attempt_error(o))

-----------------------------------------------------------------------------
(* Link extraction and normalisation *)

(* An <a> element of a listing page: its href and data-href attributes and  *)
(* whether the site's article_link_selector matches it.                     *)
Anchor(h, d, m) == [href |-> h, data_href |-> d, sel |-> m]

\* line 69: a.get("href") or a.get("data-href") or ""
anchor_target(a) == IF a.href # NoHref THEN a.href ELSE a.data_href

\* lines 64-77, before list(links): the set `links`
parse_list(html, link_sel, base) ==
    IF link_sel # ""
    THEN {urljoin(base, anchor_target(a)) :
            a \in {b \in html : b.sel /\ anchor_target(b) # NoHref}}
    ELSE {urljoin(base, a.href) :
            a \in {b \in html : /\ b.href # NoHref
                                /\ \/ startswith_slash(b.href)
                                   \/ href_netloc(b.href) = netloc(base)}}

\* line 83: urlparse(u)._replace(fragment="").geturl()
strip_fragment(u) == [u EXCEPT !.frag = ""]

\* lines 79-86, as the loop runs: `out` after the URLs of `urls`
RECURSIVE normalize_from(_, _)
normalize_from(urls, out) ==
    IF urls = <<>> THEN out
    ELSE LET u == Head(urls)
             normalized == strip_fragment(u)
         IN  IF u = EmptyUrl THEN normalize_from(Tail(urls), out)
             ELSE IF normalized \notin Range(out)
                  THEN normalize_from(Tail(urls), Append(out, normalized))
                  ELSE normalize_from(Tail(urls), out)

normalize_urls(urls) == normalize_from(urls, <<>>)

-----------------------------------------------------------------------------
(* Field extraction *)

(* A configured selector: its CSS part is well-formed ("ok") or not ("bad"), *)
(* and it carries an ::attr(name) suffix or not.                             *)
Sel(c, a) == [css |-> c, attr |-> a]

\* the empty selector, and a key missing from the site's entry
NoSel == Sel("", FALSE)
AbsentSel == Sel("absent", FALSE)

(* An article page, as the selectors see it: is there a matching element,  *)
(* and is the attribute asked for absent, a string, or a multi-valued      *)
(* attribute (class, rel, ...) that BeautifulSoup returns as a list.       *)
Doc(e, a) == [el |-> e, attr |-> a]

ArticleDocs == {Doc(TRUE, "str"), Doc(TRUE, "list")}

Val(v) == [raised |-> FALSE, val |-> v]
Raised == [raised |-> TRUE, val |-> ""]

\* lines 54-62
extract_first(soup, selector) ==
    IF selector \in {NoSel, AbsentSel} THEN Val("")
    ELSE IF selector.css = "bad" THEN Raised          \* select_one raises
    ELSE IF selector.attr
         THEN IF ~soup.el THEN Val("")
              ELSE IF soup.attr = "list" THEN Raised  \* list has no strip()
              ELSE IF soup.attr = "str" THEN Val("v")
              ELSE Val("")
    ELSE IF soup.el THEN Val("t") ELSE Val("")

\* line 95: cfg.get("title_selector", "h1")
title_selector(cfg) ==
    IF cfg.title_selector = AbsentSel THEN Sel("ok", FALSE) ELSE cfg.title_selector

\* lines 94-98: does the extraction raise?
extract_raises(soup, cfg) ==
    \/ extract_first(soup, title_selector(cfg)).raised
    \/ extract_first(soup, cfg.date_selector).raised
    \/ extract_first(soup, cfg.author_selector).raised
    \/ extract_first(soup, cfg.summary_selector).raised

\* lines 106-111 (run without --with-text: text is "")
article_record(soup, url, cfg, now) ==
    [source     |-> IF cfg.name # "" THEN cfg.name ELSE netloc(url),
     title      |-> extract_first(soup, title_selector(cfg)).val,
     url        |-> url,
     date       |-> extract_first(soup, cfg.date_selector).val,
     author     |-> extract_first(soup, cfg.author_selector).val,
     summary    |-> extract_first(soup, cfg.summary_selector).val,
     text       |-> "",
     fetched_at |-> now]

-----------------------------------------------------------------------------
(* The inputs of a run *)

Site(n, b, su, ls, au) ==
    [name |-> n, base_url |-> b, start_urls |-> su, article_link_selector |-> ls,
     title_selector |-> AbsentSel, date_selector |-> Sel("ok", TRUE),
     author_selector |-> au, summary_selector |-> Sel("ok", FALSE)]

Site1 ==
    Site("S1", U("x", "", ""), <<U("x", "l1", ""), U("x", "l2", "")>>, ".card a", NoSel)

\* no name, no base_url, no article_link_selector
Site2(au) == Site("", EmptyUrl, <<U("o", "l1", "")>>, "", au)

\* an entry with neither base_url nor start_urls
Site3 == Site("S3", EmptyUrl, <<>>, "", NoSel)

\* the site lists a run can be configured with
Configs == {<<Site1, Site3, Site2(NoSel)>>, <<Site2(Sel("bad", FALSE)), Site3>>}

\* the listing pages the sites can answer with
Page1 ==
    {Anchor(Href("rel", "", "a", ""), NoHref, TRUE),
     Anchor(NoHref, Href("abs", "x", "a", "f"), TRUE),
     Anchor(Href("abs", "o", "b", ""), NoHref, FALSE)}

Page2 ==
    {Anchor(Href("rel", "", "b", ""), NoHref, FALSE),
     Anchor(Href("proto", "o", "b", ""), NoHref, FALSE),
     Anchor(Href("abs", "z", "c", ""), NoHref, FALSE)}

Page3 == {}

Pages == {Page1, Page2, Page3}

\* a row of a table written by an earlier run, as the cells of the file
OldRow(u, a, t) ==
    [source |-> "old", title |-> "t", url |-> u, date |-> "", author |-> a,
     summary |-> "", text |-> "", fetched_at |-> t]

File(rs) == [exists |-> TRUE, rows |-> rs]
NoFile == [exists |-> FALSE, rows |-> <<>>]

\* the file at --out before the run (fetched_at of old rows is below 0)
PriorTables ==
    {NoFile,
     File(<<OldRow(U("x", "a", ""), "N/A", -1)>>),
     File(<<OldRow(U("o", "b", ""), "v", -1), OldRow(U("x", "b", ""), "", -2)>>),
     File(<<OldRow(U("x", "a", ""), "v", -1), OldRow(U("x", "a", ""), "v", -2)>>),
     File(<<OldRow(EmptyUrl, "v", -1), OldRow(U("x", "a", ""), "v", -2)>>)}

-----------------------------------------------------------------------------
(* main *)

\* line 141
base_of(site) ==
    IF site.base_url # EmptyUrl THEN site.base_url
    ELSE IF site.start_urls # <<>> THEN site.start_urls[1]
    ELSE EmptyUrl

\* float("nan") in a text column of a data frame
NaN == "NaN"

\* the cells pd.read_csv takes for missing values (its default na_values)
NaCells == {"", "N/A"}

\* pd.read_csv: a text cell of the file as a value of the data frame
read_cell(c) == IF c \in NaCells THEN NaN ELSE c

\* df.to_csv: a value of the data frame as a cell of the file
write_cell(v) == IF v = NaN THEN "" ELSE v

\* line 132: pd.read_csv(args.out), the records of the data frame
read_csv(rs) ==
    [k \in DOMAIN rs |->
        [source     |-> read_cell(rs[k].source),
         title      |-> read_cell(rs[k].title),
         url        |-> IF rs[k].url = EmptyUrl THEN NaNUrl ELSE rs[k].url,
         date       |-> read_cell(rs[k].date),
         author     |-> read_cell(rs[k].author),
         summary    |-> read_cell(rs[k].summary),
         text       |-> read_cell(rs[k].text),
         fetched_at |-> rs[k].fetched_at]]

\* line 182: df.to_csv(args.out, index=False), the rows of the file
to_csv(rs) ==
    [k \in DOMAIN rs |->
        [source     |-> write_cell(rs[k].source),
         title      |-> write_cell(rs[k].title),
         url        |-> IF rs[k].url = NaNUrl THEN EmptyUrl ELSE rs[k].url,
         date       |-> write_cell(rs[k].date),
         author     |-> write_cell(rs[k].author),
         summary    |-> write_cell(rs[k].summary),
         text       |-> write_cell(rs[k].text),
         fetched_at |-> rs[k].fetched_at]]

\* df["url"].dropna(), as a set
urls_of(rs) == {rs[k].url : k \in DOMAIN rs} \ {NaNUrl}

\* load_existing leaving the seen-URL set empty
load_existing_none(rs) == {}

\* line 133: the seen-URL set loaded from the prior table
load_existing(rs) == urls_of(rs)

\* line 134: the rows loaded from the prior table
load_rows(rs) == rs

\* line 180: sort_values("fetched_at", ascending=False)
RECURSIVE insert_desc(_, _)
insert_desc(r, sorted) ==
    IF sorted = <<>> THEN <<r>>
    ELSE IF r.fetched_at > Head(sorted).fetched_at THEN <<r>> \o sorted
    ELSE <<Head(sorted)>> \o insert_desc(r, Tail(sorted))

RECURSIVE sort_desc(_)
sort_desc(rs) ==
    IF rs = <<>> THEN <<>> ELSE insert_desc(Head(rs), sort_desc(Tail(rs)))

\* line 148: `base or su`
base_or(site, su) == IF base_of(site) # EmptyUrl THEN base_of(site) ELSE su

\* lines 150-153: is parse_list called a second time ("[INFO] Fallback" printed)?
fallback_printed(html, site, su) ==
    parse_list(html, site.article_link_selector, base_or(site, su)) = {}

\* what one parsed listing page gave: the page, whether the fallback ran, and
\* the links added to all_links
Parse(html, fb, links) == [done |-> TRUE, html |-> html, fallback |-> fb, links |-> links]

NoParse == [done |-> FALSE, html |-> {}, fallback |-> FALSE, links |-> {}]

\* listing_links never calling parse_list a second time
listing_links_selector_only(html, site, su) ==
    parse_list(html, site.article_link_selector, base_or(site, su))

\* lines 148-154: the links one listing page contributes
listing_links(html, site, su) ==
    LET b == IF base_of(site) # EmptyUrl THEN base_of(site) ELSE su
        links_sel == parse_list(html, site.article_link_selector, b)
    IN  IF links_sel = {} THEN parse_list(html, "", b) ELSE links_sel

\* already_seen never skipping
already_seen_never(url, seen) == FALSE

\* line 169: is the candidate skipped?
already_seen(url, seen) == url \in seen

Init ==
    /\ sites \in Configs
    /\ max_per_site \in -1..MaxPerSite
    /\ \/ out_dir_exists = TRUE /\ table \in PriorTables
       \/ out_dir_exists = FALSE /\ table = NoFile
    /\ prior = table
    /\ writes = 0
    /\ pc = "load"
    /\ si = 1
    /\ rp = NoPolicy
    /\ rb = NoRobotsFetch
    /\ sj = 1
    /\ all_links = <<>>
    /\ article_urls = <<>>
    /\ ai = 1
    /\ existing = {}
    /\ rows = <<>>
    /\ clock = 0
    /\ pg = IdleCall
    /\ warned = {}
    /\ attempted = {}
    /\ interrupted = FALSE
    /\ parsed = NoParse

\* lines 129-136
Load ==
    /\ pc = "load"
    /\ IF table.exists
       THEN /\ existing' = load_existing(read_csv(table.rows))
            /\ rows' = load_rows(read_csv(table.rows))
       ELSE existing' = {} /\ rows' = <<>>
    /\ pc' = IF sites = <<>> THEN "write" ELSE "site"
    /\ UNCHANGED <<sites, max_per_site, out_dir_exists, table, writes, si, rp, rb, sj,
                   all_links, article_urls, ai, clock, pg, prior, warned,
                   attempted, interrupted>>
    /\ UNCHANGED parsed

\* lines 141-144
SiteStart ==
    /\ pc = "site"
    /\ IF base_of(sites[si]) # EmptyUrl
       THEN \E o \in RobotsOutcomes :
               /\ rb' = o
               /\ rp' = robots_for(o)
               /\ interrupted' = (interrupted \/ o = RobotsInterrupt)
       ELSE rb' = NoRobotsFetch /\ rp' = NoPolicy /\ UNCHANGED interrupted
    /\ all_links' = <<>>
    /\ sj' = 1
    /\ attempted' = {}
    /\ pc' = "listing"
    /\ UNCHANGED <<sites, max_per_site, out_dir_exists, table, writes, si,
                   article_urls, ai, existing, rows, clock, pg, prior, warned>>
    /\ UNCHANGED parsed

\* line 147, up to the loop of polite_get
ListingCall ==
    /\ pc = "listing"
    /\ sj <= Len(sites[si].start_urls)
    /\ pg' = pg_enter(rp, sites[si].start_urls[sj])
    /\ pc' = "listing_get"
    /\ UNCHANGED <<sites, max_per_site, out_dir_exists, table, writes, si, rp, rb, sj,
                   all_links, article_urls, ai, existing, rows, clock, prior, warned,
                   attempted, interrupted>>
    /\ parsed' = NoParse

\* lines 33-45: one attempt of the call in progress
Attempt ==
    /\ pg.st = "try"
    /\ \E o \in AttemptOutcomes : pg' = pg_attempt(pg, o)
    /\ UNCHANGED <<sites, max_per_site, out_dir_exists, table, writes, pc, si, rp, rb,
                   sj, all_links, article_urls, ai, existing, rows, clock, prior,
                   warned,
                   attempted, interrupted>>
    /\ UNCHANGED parsed

\* lines 148-155: the listing was fetched
ListingParsed ==
    /\ pc = "listing_get"
    /\ pg.st = "returned"
    /\ \E html \in Pages :
         LET su == sites[si].start_urls[sj]
             found == listing_links(html, sites[si], su)
         IN  /\ \E links \in Orderings(found) : all_links' = all_links \o links
             /\ parsed' = Parse(html, fallback_printed(html, sites[si], su), found)
    /\ sj' = sj + 1
    /\ pc' = "listing"
    /\ pg' = IdleCall
    /\ UNCHANGED <<sites, max_per_site, out_dir_exists, table, writes, si, rp, rb,
                   article_urls, ai, existing, rows, clock, prior, warned,
                   attempted, interrupted>>

\* ListingFailed letting the error end the run
ListingFailedAborts ==
    /\ pc = "listing_get"
    /\ pg.st = "raised"
    /\ pc' = "crashed"
    /\ pg' = IdleCall
    /\ UNCHANGED <<sites, max_per_site, out_dir_exists, table, writes, si, rp, rb, sj,
                   all_links, article_urls, ai, existing, rows, clock, prior, warned,
                   attempted, interrupted>>
    /\ UNCHANGED parsed

\* lines 156-157: the listing fetch raised
ListingFailed ==
    /\ pc = "listing_get"
    /\ pg.st = "raised"
    /\ warned' = warned \cup {<<si, sj>>}
    /\ sj' = sj + 1
    /\ pc' = "listing"
    /\ pg' = IdleCall
    /\ UNCHANGED <<sites, max_per_site, out_dir_exists, table, writes, si, rp, rb,
                   all_links, article_urls, ai, existing, rows, clock, prior,
                   attempted, interrupted>>
    /\ UNCHANGED parsed

\* lines 159-161
Candidates ==
    /\ pc = "listing"
    /\ sj > Len(sites[si].start_urls)
    /\ \E shuffled \in Orderings(Range(normalize_urls(all_links))) :
         article_urls' = Slice(shuffled, max_per_site)
    /\ ai' = 1
    /\ pc' = "articles"
    /\ UNCHANGED <<sites, max_per_site, out_dir_exists, table, writes, si, rp, rb, sj,
                   all_links, existing, rows, clock, pg, prior, warned,
                   attempted, interrupted>>
    /\ parsed' = NoParse

\* lines 169-170
ArticleSkip ==
    /\ pc = "articles"
    /\ ai <= Len(article_urls)
    /\ already_seen(article_urls[ai], existing)
    /\ ai' = ai + 1
    /\ UNCHANGED <<sites, max_per_site, out_dir_exists, table, writes, pc, si, rp, rb,
                   sj, all_links, article_urls, existing, rows, clock, pg, prior,
                   warned,
                   attempted, interrupted>>
    /\ UNCHANGED parsed

\* lines 171 and 90, up to the loop of polite_get
ArticleCall ==
    /\ pc = "articles"
    /\ ai <= Len(article_urls)
    /\ ~already_seen(article_urls[ai], existing)
    /\ pg' = pg_enter(rp, article_urls[ai])
    /\ attempted' = attempted \cup {article_urls[ai]}
    /\ pc' = "article_get"
    /\ UNCHANGED <<sites, max_per_site, out_dir_exists, table, writes, si, rp, rb, sj,
                   all_links, article_urls, ai, existing, rows, clock, prior, warned,
                   interrupted>>
    /\ UNCHANGED parsed

\* ArticleFailed recording the URL as seen
ArticleFailedMarksSeen ==
    /\ pc = "article_get"
    /\ pg.st = "raised"
    /\ existing' = existing \cup {article_urls[ai]}
    /\ ai' = ai + 1
    /\ pc' = "articles"
    /\ pg' = IdleCall
    /\ UNCHANGED <<sites, max_per_site, out_dir_exists, table, writes, si, rp, rb, sj,
                   all_links, article_urls, rows, clock, prior, warned,
                   attempted, interrupted, parsed>>

\* lines 91-93 and 172-173: the article fetch raised
ArticleFailed ==
    /\ pc = "article_get"
    /\ pg.st = "raised"
    /\ ai' = ai + 1
    /\ pc' = "articles"
    /\ pg' = IdleCall
    /\ UNCHANGED <<sites, max_per_site, out_dir_exists, table, writes, si, rp, rb, sj,
                   all_links, article_urls, existing, rows, clock, prior, warned,
                   attempted, interrupted>>
    /\ UNCHANGED parsed

\* lines 94-111 and 172-175: the article was fetched
ArticleExtracted ==
    /\ pc = "article_get"
    /\ pg.st = "returned"
    /\ \E soup \in ArticleDocs :
         IF extract_raises(soup, sites[si])
         THEN /\ pc' = "crashed"
              /\ UNCHANGED <<rows, existing, ai, clock>>
         ELSE /\ rows' = Append(rows, article_record(soup, article_urls[ai], sites[si],
                                                     clock + 1))
              /\ existing' = existing \cup {article_urls[ai]}
              /\ clock' = clock + 1
              /\ ai' = ai + 1
              /\ pc' = "articles"
    /\ pg' = IdleCall
    /\ UNCHANGED <<sites, max_per_site, out_dir_exists, table, writes, si, rp, rb, sj,
                   all_links, article_urls, prior, warned,
                   attempted, interrupted>>
    /\ UNCHANGED parsed

\* line 177 and the loop of line 140
SiteEnd ==
    /\ pc = "articles"
    /\ ai > Len(article_urls)
    /\ si' = si + 1
    /\ pc' = IF si + 1 > Len(sites) THEN "write" ELSE "site"
    /\ UNCHANGED <<sites, max_per_site, out_dir_exists, table, writes, rp, rb, sj,
                   all_links, article_urls, ai, existing, rows, clock, pg, prior,
                   warned,
                   attempted, interrupted>>
    /\ UNCHANGED parsed

\* Write without the test of line 179
WriteAlways ==
    /\ pc = "write"
    /\ IF out_dir_exists
       THEN /\ table' = File(to_csv(sort_desc(rows)))
            /\ writes' = writes + 1
            /\ pc' = "done"
       ELSE /\ pc' = "crashed"
            /\ UNCHANGED <<table, writes>>
    /\ UNCHANGED <<sites, max_per_site, out_dir_exists, si, rp, rb, sj, all_links,
                   article_urls, ai, existing, rows, clock, pg, prior, warned,
                   attempted, interrupted>>
    /\ UNCHANGED parsed

(* A KeyboardInterrupt delivered anywhere but in rp.read(): it is no        *)
(* Exception, so the handlers of lines 42, 91, 135 and 156 let it pass and *)
(* the process ends; what it held in memory is gone, the file is untouched. *)
Interrupt ==
    /\ pc \notin {"done", "crashed", "interrupted"}
    /\ interrupted' = TRUE
    /\ pc' = "interrupted"
    /\ si' = 1
    /\ rp' = NoPolicy
    /\ rb' = NoRobotsFetch
    /\ sj' = 1
    /\ all_links' = <<>>
    /\ article_urls' = <<>>
    /\ ai' = 1
    /\ existing' = {}
    /\ rows' = <<>>
    /\ clock' = 0
    /\ pg' = IdleCall
    /\ attempted' = {}
    /\ UNCHANGED <<sites, max_per_site, out_dir_exists, table, writes, prior, warned>>
    /\ parsed' = NoParse

\* lines 179-185
Write ==
    /\ pc = "write"
    /\ IF rows # <<>>
       THEN IF out_dir_exists
            THEN /\ table' = File(to_csv(sort_desc(rows)))
                 /\ writes' = writes + 1
                 /\ pc' = "done"
            ELSE /\ pc' = "crashed"        \* to_csv raises OSError
                 /\ UNCHANGED <<table, writes>>
       ELSE /\ pc' = "done"
            /\ UNCHANGED <<table, writes>>
    /\ UNCHANGED <<sites, max_per_site, out_dir_exists, si, rp, rb, sj, all_links,
                   article_urls, ai, existing, rows, clock, pg, prior, warned,
                   attempted, interrupted>>
    /\ UNCHANGED parsed

Next ==
    \/ Load
    \/ SiteStart
    \/ ListingCall
    \/ Attempt
    \/ ListingParsed
    \/ ListingFailed
    \/ Candidates
    \/ ArticleSkip
    \/ ArticleCall
    \/ ArticleFailed
    \/ ArticleExtracted
    \/ SiteEnd
    \/ Write
    \/ Interrupt

Spec == Init /\ [][Next]_vars

-----------------------------------------------------------------------------
(* Properties *)

NumEv(tr, e) == Cardinality({k \in DOMAIN tr : tr[k].ev = e})

RowsFor(rs, u) == Cardinality({k \in DOMAIN rs : rs[k].url = u})

Copies(rs, r) == Cardinality({k \in DOMAIN rs : rs[k] = r})

DistinctUrls(rs) == \A a, b \in DOMAIN rs : a # b => rs[a].url # rs[b].url

\* the non-blank url cells of the rows of a file
FileUrls(rs) == {rs[k].url : k \in DOMAIN rs} \ {EmptyUrl}

HasRow(rs, u, src) == \E k \in DOMAIN rs : rs[k].url = u /\ rs[k].source = src

\* C1: a call of polite_get with a policy present that disallows the URL ends at
\* once in the robots-blocked error: no GET was issued, no attempt was made and
\* neither a backoff nor a courtesy sleep happened.
C1_BlockedWithoutRequest ==
    (pg.st # "idle" /\ rp.present /\ ~can_fetch(rp, pg.url))
        => /\ pg.st = "raised"
           /\ pg.err = Err("PermissionError", 0)
           /\ pg.trace = <<>>
           /\ pg.i = 0

\* a fetch of an article under a path the parsed robots.txt disallows was refused
C1_Witness ==
    /\ pc = "article_get"
    /\ pg.st = "raised"
    /\ rp.last_checked
    /\ pg.url.path \in rp.disallow
    /\ pg.err = Err("PermissionError", 0)

\* C2: in a run that found no prior table or one with pairwise distinct urls, the
\* row collection never holds two records with the same url, and neither does
\* the table the run writes.
C2_UniqueUrls ==
    DistinctUrls(prior.rows) => DistinctUrls(rows) /\ DistinctUrls(table.rows)

\* a run over a prior table wrote it back with two more rows, having met a
\* candidate that the prior table already held
C2_Witness ==
    /\ pc = "done"
    /\ writes = 1
    /\ prior.rows # <<>>
    /\ DistinctUrls(prior.rows)
    /\ Len(table.rows) >= Len(prior.rows) + 2
    /\ \E k \in DOMAIN article_urls : article_urls[k] \in FileUrls(prior.rows)

\* C3: the written table holds every row of the prior table unchanged, as many
\* times as the prior table did, no other row for a url of the prior table, and
\* exactly one row for every url the run added.
C3_PriorRowsKept ==
    writes > 0 =>
        /\ \A k \in DOMAIN prior.rows :
              Copies(table.rows, prior.rows[k]) = Copies(prior.rows, prior.rows[k])
        /\ \A u \in FileUrls(prior.rows) : RowsFor(table.rows, u) = RowsFor(prior.rows, u)
        /\ \A u \in FileUrls(table.rows) \ FileUrls(prior.rows) : RowsFor(table.rows, u) = 1

\* C4: no article fetch is ever under way for a URL of the seen set, and the
\* rows held for a URL of the seen set never change in number.
C4_SeenNeverFetched ==
    [][/\ pc' = "article_get" => pg'.url \notin existing'
       /\ pc' # "interrupted"
            => \A u \in existing : RowsFor(rows', u) = RowsFor(rows, u)]_vars

\* the last site has passed over a candidate whose row an earlier site appended
C4_Witness ==
    /\ pc = "articles"
    /\ ai > 1
    /\ sites[si].name = ""
    /\ article_urls[ai - 1] \in existing
    /\ HasRow(rows, article_urls[ai - 1], "S1")
    /\ RowsFor(rows, article_urls[ai - 1]) = 1

\* a response status that is neither 2xx nor 429 nor 5xx
TerminalStatus(o) ==
    /\ o.kind = "resp"
    /\ ~(200 <= o.status /\ o.status < 300)
    /\ o.status # 429
    /\ ~(500 <= o.status /\ o.status < 600)

\* C5: once an attempt of polite_get met a status that is neither 2xx nor 429
\* nor 5xx, the call has ended with the HTTP error of that status: no further
\* attempt is pending.
C5_TerminalStatusEndsCall ==
    (pg.st # "idle" /\ TerminalStatus(pg.last))
        => pg.st = "raised" /\ pg.err = Err("HTTPError", pg.last.status)

\* C6: a call of polite_get issues at most 4 GETs; when it returns, the GET that
\* succeeded is its last one, after one failed GET per earlier attempt; when it
\* raises after attempts, it made 4 of them and raises the error of the last.
C6_AtMostFourAttempts ==
    /\ NumEv(pg.trace, "get") <= 4
    /\ pg.st = "returned"
          => /\ attempt_error(pg.last) = NoErr
             /\ NumEv(pg.trace, "get") = pg.i + 1
    /\ (pg.st = "raised" /\ pg.trace # <<>>)
          => /\ NumEv(pg.trace, "get") = 4
             /\ pg.err # NoErr
             /\ pg.err = attempt_error(pg.last)

\* a call raised the HTTP error of its fourth attempt
C6_Witness ==
    /\ pg.st = "raised"
    /\ NumEv(pg.trace, "get") = 4
    /\ pg.last = Got("resp", 503)
    /\ pg.err = Err("HTTPError", 503)

\* C7: a call of polite_get that returned took the courtesy sleep exactly once,
\* as its last event and right after the GET that succeeded; a call that is
\* still trying or that raised took none.
C7_CourtesySleepOnSuccessOnly ==
    /\ pg.st = "returned"
          => /\ NumEv(pg.trace, "courtesy") = 1
             /\ Len(pg.trace) >= 2
             /\ pg.trace[Len(pg.trace)].ev = "courtesy"
             /\ pg.trace[Len(pg.trace) - 1].ev = "get"
    /\ pg.st \in {"try", "raised"} => NumEv(pg.trace, "courtesy") = 0

\* a call returned on its third attempt
C7_Witness ==
    /\ pg.st = "returned"
    /\ pg.i = 2
    /\ NumEv(pg.trace, "get") = 3
    /\ NumEv(pg.trace, "courtesy") = 1

\* the URLs the sites of the model can ask for
KnownUrls == {U(h, p, "") : h \in {"x", "o"}, p \in {"a", "b", "l1", "l2"}}

\* C8: when the fetch of a site's robots.txt failed, robots_for gave no policy or
\* one that allows every URL, and no fetch of the site is refused by robots.
C8_RobotsFailureAllowsAll ==
    rb \in RobotsFailures
        => /\ ~rp.present \/ \A u \in KnownUrls : can_fetch(rp, u)
           /\ pg.err # Err("PermissionError", 0)

\* C9: after a listing fetch that raised, the run goes on with the next start
\* URL of the same site, the links collected so far and the rows kept; the
\* listing loop is left only past the last start URL and the final write is
\* reached only past the last site.
C9_ListingFailureSkipped ==
    [][/\ (pc = "listing_get" /\ pg.st = "raised" /\ pc' # "interrupted")
            => /\ pc' = "listing"
               /\ si' = si
               /\ sj' = sj + 1
               /\ all_links' = all_links
               /\ rows' = rows
       /\ (pc = "listing" /\ pc' \notin {"listing", "interrupted"})
            => \/ pc' = "listing_get"
               \/ pc' = "articles" /\ sj > Len(sites[si].start_urls)
       /\ (pc # "write" /\ pc' = "write") => si' > Len(sites)]_vars

\* the first listing of the first site failed, yet the site gave a row (its
\* second listing was fetched) and so did the last site
C9_Witness ==
    /\ pc = "done"
    /\ <<1, 1>> \in warned
    /\ \E k \in DOMAIN rows : rows[k].source = "S1" /\ rows[k].fetched_at > 0
    /\ \E k \in DOMAIN rows : rows[k].source = "o" /\ rows[k].fetched_at > 0

\* C10: when the fetch of a candidate has ended, whether it raised or returned
\* a page, the loop goes on with the next candidate of the same site and keeps
\* the rows collected so far.
C10_ArticleFailureSkipped ==
    [][(pc = "article_get" /\ pg.st \in {"returned", "raised"} /\ pc' # "interrupted")
            => /\ pc' = "articles"
               /\ si' = si
               /\ ai' = ai + 1
               /\ Len(rows') >= Len(rows)
               /\ SubSeq(rows', 1, Len(rows)) = rows]_vars

Min(a, b) == IF a < b THEN a ELSE b

\* the distinct normalized candidates of the current site, before the cut
NumCandidates == Cardinality(Range(normalize_urls(all_links)))

InArticleLoop == pc \in {"articles", "article_get"}

\* C11 as claimed: when the article loop of a site with n distinct candidates
\* and limit m >= 0 has ended, exactly min(n, m) distinct URLs were attempted.
C11_ExactlyMinAttempted ==
    (pc = "articles" /\ ai > Len(article_urls) /\ max_per_site >= 0)
        => Cardinality(attempted) = Min(NumCandidates, max_per_site)

\* C11 as amended: with limit m >= 0 the candidates kept are exactly min(n, m)
\* distinct URLs; only they are attempted, and every candidate the loop has
\* passed was attempted unless it was in the seen set.
C11_MinCandidatesKept ==
    (InArticleLoop /\ max_per_site >= 0)
        => /\ Len(article_urls) = Min(NumCandidates, max_per_site)
           /\ Cardinality(Range(article_urls)) = Len(article_urls)
           /\ attempted \subseteq Range(article_urls)
           /\ Cardinality(attempted) <= Min(NumCandidates, max_per_site)
           /\ \A k \in 1..(ai - 1) :
                 article_urls[k] \in attempted \/ article_urls[k] \in existing

\* three candidates were cut to two, of which one was in the seen set and
\* passed over and the other was attempted
C11_Witness ==
    /\ pc = "articles"
    /\ ai > Len(article_urls)
    /\ max_per_site = 2
    /\ NumCandidates = 3
    /\ Len(article_urls) = 2
    /\ Cardinality(attempted) = 1

\* C12: the table is written at most once per run, only past the last site,
\* and never when the row collection is empty; until then the file is as the
\* run found it.
C12_WrittenOnceAtEnd ==
    /\ writes <= 1
    /\ writes = 1 => pc = "done" /\ si > Len(sites) /\ rows # <<>>
    /\ writes = 0 => table = prior
    /\ (pc = "done" /\ rows = <<>>) => writes = 0

\* a run over no prior table attempted an article, gained no row and ended
\* without writing
C12_Witness ==
    /\ pc = "done"
    /\ rows = <<>>
    /\ writes = 0
    /\ ~table.exists
    /\ attempted # {}

\* C13: once an interrupt was delivered before the final write, the run is
\* over: the process has ended, nothing more is processed and the table is as
\* the run found it.
C13_InterruptAborts ==
    interrupted => pc = "interrupted" /\ table = prior /\ writes = 0

\* C14: when the run has passed the last site with a non-empty row collection,
\* it ends with the table written to the destination, whatever --out is: the
\* rows are in the file.
C14_RowsPersisted ==
    (pc \in {"done", "crashed"} /\ si > Len(sites) /\ rows # <<>>)
        => /\ pc = "done"
           /\ writes = 1
           /\ table.exists
           /\ Len(table.rows) = Len(rows)

\* lines 47-49: the origin whose robots.txt the policy of a site is read from
robots_origin(site) == netloc(base_of(site))

\* C15: a request is only sent for a URL that was checked against the robots
\* policy of its own origin: the policy in force while a GET is issued was read
\* from the host of the requested URL, also when that host is not the base's.
C15_OwnOriginPolicy ==
    (rp.present /\ NumEv(pg.trace, "get") > 0)
        => robots_origin(sites[si]) = netloc(pg.url)

\* the base the page just parsed was resolved against
ParsedBase == base_or(sites[si], sites[si].start_urls[sj - 1])

\* the links of the page just parsed came from parse_list run with an empty
\* link selector
ByFallback == parsed.done /\ (parsed.fallback \/ sites[si].article_link_selector = "")

\* C17: every URL that link extraction returns when it runs with an empty link
\* selector is on the host of the base URL.
C17_FallbackSameHost ==
    ByFallback => \A u \in parsed.links : netloc(u) = netloc(ParsedBase)

\* the anchors of a page that the site's selector matches and that carry a link
SelectorHits(html) == {a \in html : a.sel /\ anchor_target(a) # NoHref}

\* C18: for a fetched listing page of a site with a non-empty link selector, the
\* fallback runs exactly when the selector yields no link; then the links
\* contributed are those of the extraction with an empty selector, and
\* otherwise they are the selector's links only.
C18_FallbackRule ==
    (parsed.done /\ sites[si].article_link_selector # "")
        => IF SelectorHits(parsed.html) = {}
           THEN /\ parsed.fallback
                /\ parsed.links = parse_list(parsed.html, "", ParsedBase)
           ELSE /\ ~parsed.fallback
                /\ parsed.links =
                      {urljoin(ParsedBase, anchor_target(a)) : a \in SelectorHits(parsed.html)}

\* a page without selector hits gave links through the fallback
C18_Witness ==
    /\ parsed.done /\ sites[si].article_link_selector # ""
    /\ parsed.fallback /\ parsed.links # {}

\* the positions of the backoff sleeps in a trace, in order
Backoffs(tr) == {k \in DOMAIN tr : tr[k].ev = "backoff"}

\* C19: a call of polite_get that ended after k attempts took exactly k-1
\* backoff sleeps, each between two attempts and of base 2^i after the attempt
\* of index i; none follows the last attempt.
C19_BackoffBetweenAttempts ==
    (pg.st \in {"returned", "raised"} /\ pg.trace # <<>>)
        => /\ NumEv(pg.trace, "backoff") = NumEv(pg.trace, "get") - 1
           /\ \A k \in Backoffs(pg.trace) :
                 /\ k < Len(pg.trace) /\ pg.trace[k + 1].ev = "get"
                 /\ pg.trace[k].base = 2 ^ (Cardinality({j \in Backoffs(pg.trace) : j < k}))

\* the table the run started from has no blank url cell
PriorUrlsFilled == \A k \in DOMAIN prior.rows : prior.rows[k].url # EmptyUrl

\* the url values of the accumulated rows
RowUrls == {rows[k].url : k \in DOMAIN rows}

\* C20: starting from a prior table without blank url values, the seen-URL set
\* is always the set of url values of the accumulated rows, and the step that
\* ends a failed article fetch changes neither.
C20_SeenIsRowUrls ==
    /\ [](PriorUrlsFilled => existing = RowUrls)
    /\ [][(pc = "article_get" /\ pg.st = "raised" /\ pc' = "articles")
             => existing' = existing /\ rows' = rows]_vars

\* an article fetch of this site failed and its URL is in neither collection,
\* while rows were loaded or added
C20_Witness ==
    /\ PriorUrlsFilled /\ rows # <<>>
    /\ pc = "articles" /\ ai > 1
    /\ article_urls[ai - 1] \in attempted
    /\ article_urls[ai - 1] \notin existing
    /\ article_urls[ai - 1] \notin RowUrls

-----------------------------------------------------------------------------
(* normalize_urls on its own: the argument is drawn from the sequences of up *)
(* to NormLen strings, the function is applied, then applied to its result.  *)

\* the longest argument drawn
NormLen == 3

\* the strings of an argument: "", http://x/a, http://x/a#f, http://x/b, "#f"
NormUrls ==
    {EmptyUrl, U("x", "a", ""), U("x", "a", "f"), U("x", "b", ""), U("", "", "f")}

NormInputs == UNION {[1..n -> NormUrls] : n \in 0..NormLen}

NormInit ==
    /\ pc = "normalize"
    /\ all_links \in NormInputs
    /\ article_urls = <<>>
    /\ sites = <<>>
    /\ max_per_site = 0
    /\ out_dir_exists = FALSE
    /\ table = NoFile
    /\ prior = NoFile
    /\ writes = 0
    /\ si = 1
    /\ rp = NoPolicy
    /\ rb = NoRobotsFetch
    /\ sj = 1
    /\ ai = 1
    /\ existing = {}
    /\ rows = <<>>
    /\ clock = 0
    /\ pg = IdleCall
    /\ warned = {}
    /\ attempted = {}
    /\ interrupted = FALSE
    /\ parsed = NoParse

\* normalize_urls(all_links)
Normalize ==
    /\ pc = "normalize"
    /\ article_urls' = normalize_urls(all_links)
    /\ pc' = "normalized"
    /\ UNCHANGED <<sites, max_per_site, out_dir_exists, table, writes, si, rp, rb, sj,
                   all_links, ai, existing, rows, clock, pg, prior, warned,
                   attempted, interrupted>>
    /\ UNCHANGED parsed

\* normalize_urls applied to what it returned
Renormalize ==
    /\ pc = "normalized"
    /\ all_links' = article_urls
    /\ article_urls' = normalize_urls(article_urls)
    /\ pc' = "renormalized"
    /\ UNCHANGED <<sites, max_per_site, out_dir_exists, table, writes, si, rp, rb, sj,
                   ai, existing, rows, clock, pg, prior, warned,
                   attempted, interrupted>>
    /\ UNCHANGED parsed

NormNext == Normalize \/ Renormalize

NormSpec == NormInit /\ [][NormNext]_vars

\* the position of the first element of urls whose fragment-stripped form is v
FirstAt(urls, v) ==
    CHOOSE k \in DOMAIN urls :
        /\ urls[k] # EmptyUrl /\ strip_fragment(urls[k]) = v
        /\ \A j \in 1..(k - 1) :
              urls[j] = EmptyUrl \/ strip_fragment(urls[j]) # v

\* out lists, once each and in order of first occurrence, the fragment-stripped
\* forms of the non-empty elements of urls
FirstOccurrences(urls, out) ==
    /\ Range(out) = {strip_fragment(u) : u \in Range(urls) \ {EmptyUrl}}
    /\ \A i, j \in DOMAIN out :
          i < j => out[i] # out[j] /\ FirstAt(urls, out[i]) < FirstAt(urls, out[j])

\* C16: normalize_urls returns the fragment-stripped forms of the non-empty
\* inputs, in order of first occurrence and without repeats, and applied to its
\* own output it returns that output unchanged.
C16_NormalizeUrls ==
    /\ pc = "normalized" => FirstOccurrences(all_links, article_urls)
    /\ pc = "renormalized" => article_urls = all_links

=============================================================================
